---- MODULE Spec2Model ----
(***************************************************************************)
(* Model of the CameraView component (src/unnamed/part_000): the camera    *)
(* session, its stream acquisition effect, photo snapshot, video recording *)
(* and the preview / retake / confirm lifecycle.                           *)
(*                                                                         *)
(* Every event handler, promise continuation and media callback is one     *)
(* action; the re-render that follows a state update (and the effect it    *)
(* triggers) is part of the action that made the update.                   *)
(***************************************************************************)
EXTENDS Integers, Sequences, FiniteSets, TLC

(* ---- bounds of the exploration ---- *)
MaxOps == 3   \* operations started in one session: stream re-acquisitions, toBlob
              \* calls, recorders constructed and dataavailable events before the last

(* ---- values ---- *)
Modes == {"photo", "video"}
NoBlob == [type |-> "null", data |-> <<>>]
PreferredMime == "video/webm; codecs=vp9"
DefaultMime == "platform-default"
SupportedImageTypes == {"image/png", "image/jpeg"}

VARIABLES
  mounted,          \* the component is rendered by its parent
  mode,             \* useState 'photo' | 'video'
  facingMode,       \* useState 'environment' | 'user'
  stream,           \* useState MediaStream | null   (0 = null, else handle id)
  isRecording,      \* useState boolean
  preview,          \* useState string | null        (0 = null, else URL id)
  previewBlob,      \* useState Blob | null          (NoBlob = null)
  videoSrc,         \* videoRef.current.srcObject    (0 = none / no element)
  mediaRecorderRef, \* useRef MediaRecorder | null   (0 = null, else recorder id)
  recordedChunksRef,\* useRef Blob[]                 (sequence of chunk data)
  effectStream,     \* `stream` captured by the closure of the last effect run
  pending,          \* getUserMedia promises not yet settled
  requested,        \* number of getUserMedia requests issued so far
  constraintsOf,    \* request id -> constraints it was issued with
  live,             \* stream handles with at least one un-stopped track
  recorders,        \* recorder id -> MediaRecorder object
  encodes,          \* canvas.toBlob callbacks not yet delivered (FIFO)
  photos,           \* number of toBlob calls issued so far
  revokeCount,      \* URL id -> number of URL.revokeObjectURL calls on it
  produced,         \* every artifact handed to URL.createObjectURL, in order
  onCloseCount,     \* invocations of props.onClose
  onCaptureCalls,   \* arguments of every invocation of props.onCapture
  acqFailures       \* getUserMedia rejections seen by setupCamera

vars == <<mounted, mode, facingMode, stream, isRecording, preview, previewBlob,
          videoSrc, mediaRecorderRef, recordedChunksRef, effectStream, pending,
          requested, constraintsOf, live, recorders, encodes, photos,
          revokeCount, produced, onCloseCount, onCaptureCalls, acqFailures>>

reactState == <<mode, facingMode, stream, isRecording, preview, previewBlob>>
history == <<onCloseCount, onCaptureCalls, acqFailures>>

(* ---- pure helpers ---- *)

\* track.stop() on every track of handle s; a null handle is skipped
StopTracks(L, s) == IF s # 0 THEN L \ {s} ELSE L

\* constraints built by setupCamera: audio is requested iff the mode is video
Constraints(f, m) == [facing |-> f, audio |-> (m = "video")]

RECURSIVE Concat(_)
\* new Blob(parts): the parts' bytes in order
Concat(parts) ==
  IF parts = <<>> THEN <<>> ELSE Head(parts) \o Concat(Tail(parts))

\* ondataavailable: a chunk is pushed only when event.data.size > 0
PushChunk(chunks, data) == IF Len(data) > 0 THEN Append(chunks, data) ELSE chunks

\* canvas.toBlob(cb, type, quality): the requested type when the platform
\* can encode it, image/png otherwise
ToBlobType(t) == IF t \in SupportedImageTypes THEN t ELSE "image/png"

\* handleTakePicture asks toBlob for 'image/jpeg'
PhotoBlobType == ToBlobType("image/jpeg")

\* a recorder that reports its own container type (not what onstop does)
RecordingBlobTypeOfRecorder(r) == recorders[r].mimeType

\* onstop builds the Blob with { type: 'video/webm' }
RecordingBlobType(r) == "video/webm"

\* handleConfirm derived from the capture mode (not what handleConfirm does)
ConfirmMimeTypeByMode == IF mode = "photo" THEN "image/jpeg" ELSE "video/webm"

\* handleConfirm passes previewBlob.type as the mimeType
ConfirmMimeType == previewBlob.type

\* the video element carrying ref={videoRef} is rendered only without preview
VideoElementMounted == mounted /\ preview = 0

RECURSIVE SumMid(_)
\* dataavailable events delivered to recorders before their last one
SumMid(q) == IF q = <<>> THEN 0 ELSE Head(q).mid + SumMid(Tail(q))
\* operations started so far, counted against MaxOps
OpsStarted == (requested - 1) + photos + Len(recorders) + SumMid(recorders)

ActiveRecording == \E r \in DOMAIN recorders : recorders[r].state = "recording"
StopPending == \E r \in DOMAIN recorders : recorders[r].stopQueued

\* the session state of the design, read off the component's state
SessionState ==
  IF ~mounted THEN "Closed"
  ELSE IF preview # 0 THEN "Previewing"
  ELSE IF isRecording THEN "Recording"
  ELSE IF pending # {} THEN "Initializing"
  ELSE IF encodes # <<>> THEN "CapturingPhoto"
  ELSE IF StopPending THEN "Finalizing"
  ELSE IF stream # 0 THEN "Streaming"
  ELSE "Idle"

(* ---- initial state: mounted, first effect run has called setupCamera ---- *)
Init ==
  /\ mounted = TRUE
  /\ mode = "photo"
  /\ facingMode = "environment"
  /\ stream = 0
  /\ isRecording = FALSE
  /\ preview = 0
  /\ previewBlob = NoBlob
  /\ videoSrc = 0
  /\ mediaRecorderRef = 0
  /\ recordedChunksRef = <<>>
  /\ effectStream = 0
  /\ pending = {1}
  /\ requested = 1
  /\ constraintsOf = <<Constraints("environment", "photo")>>
  /\ live = {}
  /\ recorders = <<>>
  /\ encodes = <<>>
  /\ photos = 0
  /\ revokeCount = <<>>
  /\ produced = <<>>
  /\ onCloseCount = 0
  /\ onCaptureCalls = <<>>
  /\ acqFailures = 0

(* ---- the parent of CameraView ---- *)

\* cleanup returned by the last effect run: it stops the tracks of the
\* `stream` that run's render had, not of the handle held now
EffectCleanup(L) == StopTracks(L, effectStream)

\* the parent dismisses the view: the component unmounts, which runs the
\* cleanup of the last effect run
ParentDismiss(L) ==
  /\ mounted' = FALSE
  /\ live' = EffectCleanup(L)

\* props.onClose(): counted; the parent dismisses the view if it is shown
onClose(L) ==
  /\ onCloseCount' = onCloseCount + 1
  /\ IF mounted THEN ParentDismiss(L) ELSE mounted' = mounted /\ live' = L

(* ---- stream acquisition ---- *)

\* a setupCamera that requests the new stream without releasing the held one
\* (not what setupCamera does)
SetupCameraNoRelease(L) == L

\* setupCamera, before the request: stop every track of the held `stream`
SetupCameraRelease(L) == StopTracks(L, stream)

\* effect for [facingMode, mode] re-running after a render that changed one of
\* them: cleanup of the previous run, then setupCamera of the current render
RunEffect(f, m) ==
  /\ live' = SetupCameraRelease(EffectCleanup(live))
  /\ requested' = requested + 1
  /\ pending' = pending \cup {requested + 1}
  /\ constraintsOf' = Append(constraintsOf, Constraints(f, m))
  /\ effectStream' = stream

\* getUserMedia resolves: the continuation of setupCamera after the await
AcquireSuccess(p) ==
  /\ p \in pending
  /\ pending' = pending \ {p}
  /\ live' = live \cup {p}
  /\ stream' = IF mounted THEN p ELSE stream
  /\ videoSrc' = IF VideoElementMounted THEN p ELSE videoSrc
  /\ UNCHANGED <<mounted, mode, facingMode, isRecording, preview, previewBlob,
                 mediaRecorderRef, recordedChunksRef, effectStream, requested,
                 constraintsOf, recorders, encodes, photos, revokeCount,
                 produced, history>>

\* getUserMedia rejects: the catch block of setupCamera
AcquireFailure(p) ==
  /\ p \in pending
  /\ pending' = pending \ {p}
  /\ acqFailures' = acqFailures + 1
  /\ onClose(live)
  /\ UNCHANGED <<reactState, videoSrc, mediaRecorderRef, recordedChunksRef,
                 effectStream, requested, constraintsOf, recorders, encodes,
                 photos, revokeCount, produced, onCaptureCalls>>

\* PHOTO / VIDEO buttons: setMode(m); a changed mode re-runs the effect
SetModeIntent(m) ==
  /\ mounted /\ preview = 0
  /\ m # mode
  /\ OpsStarted < MaxOps
  /\ mode' = m
  /\ RunEffect(facingMode, m)
  /\ UNCHANGED <<mounted, facingMode, stream, isRecording, preview, previewBlob,
                 videoSrc, mediaRecorderRef, recordedChunksRef, recorders,
                 encodes, photos, revokeCount, produced, history>>

\* flip button: handleFlipCamera toggles facingMode, which re-runs the effect
handleFlipCamera ==
  /\ mounted /\ preview = 0
  /\ OpsStarted < MaxOps
  /\ facingMode' = (IF facingMode = "user" THEN "environment" ELSE "user")
  /\ RunEffect(facingMode', mode)
  /\ UNCHANGED <<mounted, mode, stream, isRecording, preview, previewBlob,
                 videoSrc, mediaRecorderRef, recordedChunksRef, recorders,
                 encodes, photos, revokeCount, produced, history>>

\* close button: onClick={onClose}
CloseIntent ==
  /\ mounted
  /\ onClose(live)
  /\ UNCHANGED <<reactState, videoSrc, mediaRecorderRef, recordedChunksRef,
                 effectStream, pending, requested, constraintsOf, recorders,
                 encodes, photos, revokeCount, produced, onCaptureCalls,
                 acqFailures>>

\* props.onCapture(blob, mimeType): recorded; the parent takes the artifact
\* and dismisses the view
onCapture(blob, mimeType) ==
  /\ onCaptureCalls' = Append(onCaptureCalls, [blob |-> blob, mimeType |-> mimeType])
  /\ ParentDismiss(live)

(* ---- capture ---- *)

\* URL.createObjectURL(blob) followed by setPreview / setPreviewBlob; the
\* state updates are dropped once the component is unmounted
ShowArtifact(blob, kind, r) ==
  /\ revokeCount' = Append(revokeCount, 0)
  /\ produced' = Append(produced, [url |-> Len(revokeCount) + 1, blob |-> blob,
                                   kind |-> kind, rec |-> r])
  /\ preview' = IF mounted THEN Len(revokeCount) + 1 ELSE preview
  /\ previewBlob' = IF mounted THEN blob ELSE previewBlob
  /\ videoSrc' = IF mounted THEN 0 ELSE videoSrc

\* shutter in photo mode: handleTakePicture draws the current frame and calls
\* canvas.toBlob; a canvas without pixels encodes to null
handleTakePicture(hasFrame) ==
  /\ mounted /\ preview = 0
  /\ mode = "photo"
  /\ OpsStarted < MaxOps
  /\ hasFrame => videoSrc # 0
  /\ photos' = photos + 1
  /\ encodes' = Append(encodes, [id |-> photos + 1, ok |-> hasFrame])
  /\ UNCHANGED <<mounted, reactState, videoSrc, mediaRecorderRef,
                 recordedChunksRef, effectStream, pending, requested,
                 constraintsOf, live, recorders, revokeCount, produced, history>>

\* the callback passed to canvas.toBlob
ToBlobCallback ==
  /\ encodes # <<>>
  /\ encodes' = Tail(encodes)
  /\ IF Head(encodes).ok
       THEN ShowArtifact([type |-> PhotoBlobType, data |-> <<100 + Head(encodes).id>>],
                         "photo", 0)
       ELSE UNCHANGED <<revokeCount, produced, preview, previewBlob, videoSrc>>
  /\ UNCHANGED <<mounted, mode, facingMode, stream, isRecording,
                 mediaRecorderRef, recordedChunksRef, effectStream, pending,
                 requested, constraintsOf, live, recorders, photos, history>>

\* a recorder whose fallback construction is never started (not what
\* handleStartRecording does)
NewRecorderFallbackNotStarted(vp9ok, startOk) ==
  [state |-> IF vp9ok /\ startOk THEN "recording" ELSE "inactive",
   stream |-> stream,
   mimeType |-> IF vp9ok THEN PreferredMime ELSE DefaultMime,
   stopQueued |-> FALSE, delivered |-> <<>>, mid |-> 0]

\* the recorder handleStartRecording constructs and starts: the preferred
\* codec, or the platform default when the constructor rejected it; after
\* either construction the handlers are attached and start() is called
NewRecorder(vp9ok, startOk) ==
  [state |-> IF startOk THEN "recording" ELSE "inactive",
   stream |-> stream,
   mimeType |-> IF vp9ok THEN PreferredMime ELSE DefaultMime,
   stopQueued |-> FALSE, delivered |-> <<>>, mid |-> 0]

\* shutter in video mode while not recording: handleStartRecording.
\* The preferred codec may be rejected by the constructor (vp9ok); start() on
\* a stream whose tracks have all ended either records or throws, depending
\* on the platform (startOk), and a throw skips setIsRecording(true)
handleStartRecording(vp9ok, startOk) ==
  /\ mounted /\ preview = 0
  /\ mode = "video" /\ ~isRecording
  /\ OpsStarted < MaxOps
  /\ IF stream # 0
       THEN /\ ~startOk => stream \notin live
            /\ recordedChunksRef' = <<>>
            /\ recorders' = Append(recorders, NewRecorder(vp9ok, startOk))
            /\ mediaRecorderRef' = Len(recorders) + 1
            /\ isRecording' = startOk
       ELSE /\ vp9ok /\ startOk
            /\ UNCHANGED <<recordedChunksRef, recorders, mediaRecorderRef, isRecording>>
  /\ UNCHANGED <<mounted, mode, facingMode, stream, preview, previewBlob,
                 videoSrc, effectStream, pending, requested, constraintsOf,
                 live, encodes, photos, revokeCount, produced, history>>

\* shutter in video mode while recording: handleStopRecording.
\* stop() on a recorder that is already inactive either returns or throws
\* InvalidStateError, depending on the platform
handleStopRecording(throws) ==
  /\ mounted /\ preview = 0
  /\ mode = "video" /\ isRecording
  /\ IF mediaRecorderRef # 0
       THEN IF recorders[mediaRecorderRef].state = "recording"
              THEN /\ ~throws
                   /\ recorders' = [recorders EXCEPT
                        ![mediaRecorderRef].state = "inactive",
                        ![mediaRecorderRef].stopQueued = TRUE]
                   /\ isRecording' = FALSE
              ELSE /\ isRecording' = (IF throws THEN isRecording ELSE FALSE)
                   /\ UNCHANGED recorders
       ELSE /\ ~throws
            /\ UNCHANGED <<recorders, isRecording>>
  /\ UNCHANGED <<mounted, mode, facingMode, stream, preview, previewBlob,
                 videoSrc, mediaRecorderRef, recordedChunksRef, effectStream,
                 pending, requested, constraintsOf, live, encodes, photos,
                 revokeCount, produced, history>>

\* the k-th chunk of recorder r, empty or carrying one identifying byte
ChunkData(r, empty) ==
  IF empty THEN <<>> ELSE <<10 * r + Len(recorders[r].delivered) + 1>>

\* a dataavailable event of a recorder that is recording: ondataavailable
DataAvailable(r, empty) ==
  /\ r \in DOMAIN recorders
  /\ recorders[r].state = "recording"
  /\ OpsStarted < MaxOps
  /\ recorders' = [recorders EXCEPT
       ![r].delivered = Append(@, ChunkData(r, empty)), ![r].mid = @ + 1]
  /\ recordedChunksRef' = PushChunk(recordedChunksRef, ChunkData(r, empty))
  /\ UNCHANGED <<mounted, reactState, videoSrc, mediaRecorderRef, effectStream,
                 pending, requested, constraintsOf, live, encodes, photos,
                 revokeCount, produced, history>>

\* the task queued by stop(): the final dataavailable event, then the stop
\* event: ondataavailable followed by onstop
RecorderStopTask(r, empty) ==
  /\ r \in DOMAIN recorders
  /\ recorders[r].stopQueued
  /\ recorders' = [recorders EXCEPT
       ![r].delivered = Append(@, ChunkData(r, empty)),
       ![r].stopQueued = FALSE]
  /\ recordedChunksRef' = PushChunk(recordedChunksRef, ChunkData(r, empty))
  /\ ShowArtifact([type |-> RecordingBlobType(r), data |-> Concat(recordedChunksRef')],
                  "video", r)
  /\ UNCHANGED <<mounted, mode, facingMode, stream, isRecording,
                 mediaRecorderRef, effectStream, pending, requested,
                 constraintsOf, live, encodes, photos, history>>

\* every track of the recorded stream has ended: the platform inactivates the
\* recorder and queues the same task as stop()
TracksEnded(r) ==
  /\ r \in DOMAIN recorders
  /\ recorders[r].state = "recording"
  /\ recorders[r].stream \notin live
  /\ recorders' = [recorders EXCEPT ![r].state = "inactive", ![r].stopQueued = TRUE]
  /\ UNCHANGED <<mounted, reactState, videoSrc, mediaRecorderRef,
                 recordedChunksRef, effectStream, pending, requested,
                 constraintsOf, live, encodes, photos, revokeCount, produced,
                 history>>

(* ---- preview ---- *)

\* Retake button (rendered only with a preview): handleRetake
handleRetake ==
  /\ mounted /\ preview # 0
  /\ preview' = 0
  /\ previewBlob' = NoBlob
  /\ revokeCount' = [revokeCount EXCEPT ![preview] = @ + 1]
  /\ UNCHANGED <<mounted, mode, facingMode, stream, isRecording, videoSrc,
                 mediaRecorderRef, recordedChunksRef, effectStream, pending,
                 requested, constraintsOf, live, recorders, encodes, photos,
                 produced, history>>

\* Use button (rendered only with a preview): handleConfirm
handleConfirm ==
  /\ mounted /\ preview # 0
  /\ IF previewBlob # NoBlob
       THEN onCapture(previewBlob, ConfirmMimeType)
       ELSE UNCHANGED <<onCaptureCalls, mounted, live>>
  /\ UNCHANGED <<reactState, videoSrc, mediaRecorderRef, recordedChunksRef,
                 effectStream, pending, requested, constraintsOf, recorders,
                 encodes, photos, revokeCount, produced, onCloseCount,
                 acqFailures>>

\* the events of the session: promise settlements, intents, media callbacks
GetUserMediaResolved == \E p \in pending : AcquireSuccess(p)
GetUserMediaRejected == \E p \in pending : AcquireFailure(p)
SetModeClick == \E m \in Modes : SetModeIntent(m)
TakePictureClick == \E hasFrame \in BOOLEAN : handleTakePicture(hasFrame)
StartRecordingClick == \E vp9ok, startOk \in BOOLEAN : handleStartRecording(vp9ok, startOk)
StopRecordingClick == \E throws \in BOOLEAN : handleStopRecording(throws)
DataAvailableEvent == \E r \in DOMAIN recorders, empty \in BOOLEAN : DataAvailable(r, empty)
StopEvent == \E r \in DOMAIN recorders, empty \in BOOLEAN : RecorderStopTask(r, empty)
TracksEndedEvent == \E r \in DOMAIN recorders : TracksEnded(r)

\* shutter button: handleShutterClick dispatches on mode and isRecording
handleShutterClick == TakePictureClick \/ StartRecordingClick \/ StopRecordingClick

Next ==
  \/ GetUserMediaResolved
  \/ GetUserMediaRejected
  \/ SetModeClick
  \/ handleFlipCamera
  \/ CloseIntent
  \/ TakePictureClick
  \/ ToBlobCallback
  \/ StartRecordingClick
  \/ StopRecordingClick
  \/ DataAvailableEvent
  \/ StopEvent
  \/ TracksEndedEvent
  \/ handleRetake
  \/ handleConfirm

Spec == Init /\ [][Next]_vars

(* ======================= properties ======================= *)

\* the chunks of a delivery sequence that carry at least one byte
NonEmptyChunks(chunks) == SelectSeq(chunks, LAMBDA c : Len(c) > 0)

\* the held handle has no un-stopped track (a null handle has none)
HeldStreamStopped == stream = 0 \/ stream \notin live

\* the preview reference, if any, has been revoked
PreviewRevoked == preview = 0 \/ revokeCount[preview] >= 1

\* C1: in every reachable state at most one stream handle has un-stopped
\* tracks, whatever the order of intents and acquisition completions.
C1_AtMostOneOpenStream == Cardinality(live) <= 1

\* C2: whenever the session is Closed, the held stream handle has all tracks
\* stopped, the preview reference (if any) is revoked and no recorder is
\* still recording.
C2_ClosedReleasesAll ==
  SessionState = "Closed" => HeldStreamStopped /\ PreviewRevoked /\ ~ActiveRecording

\* C3: once confirm() has been issued in Previewing, the preview reference of
\* the confirmed artifact is revoked and the session state is Closed.
C3_ConfirmRevokesAndCloses ==
  onCaptureCalls # <<>> => SessionState = "Closed" /\ PreviewRevoked

\* C4: a retake step in Previewing revokes the prior preview reference, clears
\* preview and previewBlob, and leaves the session in Streaming: not recording
\* and holding a live stream handle.
C4_RetakeReturnsToStreaming ==
  [][(mounted /\ preview # 0 /\ mounted' /\ preview' = 0) =>
       /\ revokeCount'[preview] = revokeCount[preview] + 1
       /\ previewBlob' = NoBlob
       /\ ~isRecording'
       /\ stream' # 0 /\ stream' \in live']_vars

C6_FailureClosesOnce ==
  acqFailures > 0 => SessionState = "Closed" /\ onCloseCount = 1 /\ live = {}

\* C7: a step taken while the session is Recording or Previewing changes
\* neither mode nor facing and issues no device request.
C7_ModeFacingOnlyInStreaming ==
  [][(SessionState = "Recording" \/ SessionState = "Previewing") =>
       (mode' = mode /\ facingMode' = facingMode /\ requested' = requested)]_vars

\* C8: every artifact produced by stopping a recording is the concatenation,
\* in delivery order, of exactly the non-empty chunks delivered to that
\* recording (the empty artifact when there are none).
C8_ArtifactIsConcatOfOwnChunks ==
  \A i \in DOMAIN produced :
    produced[i].kind = "video" =>
      produced[i].blob.data = Concat(NonEmptyChunks(recorders[produced[i].rec].delivered))

\* C9: every photo artifact has mimeType "image/jpeg" and every recording
\* artifact has mimeType "video/webm", whichever codec the recorder got.
C9_ArtifactMimeTypes ==
  \A i \in DOMAIN produced :
    /\ produced[i].kind = "photo" => produced[i].blob.type = "image/jpeg"
    /\ produced[i].kind = "video" => produced[i].blob.type = "video/webm"

\* C9 witness: a photo artifact and the artifact of a recording made with the
\* fallback (default codec) recorder have both been produced.
C9_Witness ==
  /\ \E i \in DOMAIN produced : produced[i].kind = "photo"
  /\ \E i \in DOMAIN produced :
       /\ produced[i].kind = "video"
       /\ recorders[produced[i].rec].mimeType = DefaultMime

\* C10: in every reachable state the session state is Recording exactly when
\* some recorder is actually recording.
C10_RecordingIffActive == (SessionState = "Recording") <=> ActiveRecording

\* preview references created by URL.createObjectURL and not yet revoked
LiveReferences == {u \in DOMAIN revokeCount : revokeCount[u] = 0}

\* C11: in every reachable state at most one preview reference has been
\* created and not yet revoked.
C11_AtMostOneLiveReference == Cardinality(LiveReferences) <= 1

\* C12: every preview reference is revoked exactly once: never twice, never
\* while it is the one displayed in Previewing, and never left un-revoked once
\* it is no longer displayed or the session has ended.
C12_ReferenceRevokedExactlyOnce ==
  \A u \in DOMAIN revokeCount :
    /\ revokeCount[u] <= 1
    /\ (mounted /\ preview = u) => revokeCount[u] = 0
    /\ (~mounted \/ preview # u) => revokeCount[u] = 1

\* C13: a step that closes the session while it is Recording leaves no
\* recorder recording: the recording is stopped before Closed is entered.
C13_CloseStopsRecording ==
  [][(CloseIntent /\ SessionState = "Recording") => ~ActiveRecording']_vars

\* C14: once the session is closed, no acquisition that resolves afterwards
\* leaves a stream with live tracks: the set of live handles never grows.
C14_NoStreamLeakAfterClose ==
  [][(~mounted) => (live' \subseteq live)]_vars


\* C15: a mode or facing change made in Streaming stops every track of the
\* held handle in the step that issues the new request, and the held handle
\* only ever changes to the handle of an acquisition that has just resolved.
C15_ReleaseBeforeReacquire ==
  [][/\ (SessionState = "Streaming" /\ requested' # requested) =>
          (stream \notin live' /\ (requested + 1) \in pending')
     /\ (stream' # stream) =>
          (stream' \in pending /\ stream' \notin pending' /\ stream' \in live')]_vars

\* C15 witness: after a change made while a handle was held, the new
\* acquisition has resolved and its handle is the only live one.
C15_Witness ==
  /\ mounted /\ pending = {} /\ requested >= 2
  /\ effectStream # 0 /\ stream = requested /\ live = {stream}

\* C16: a shutter press in Streaming issues a snapshot in photo mode and
\* starts a recording in video mode; a shutter press in Recording stops the
\* recorder and queues its finalization; a shutter press in video mode with
\* no stream handle starts no recording and leaves isRecording false.
C16_ShutterDispatch ==
  [][handleShutterClick =>
       /\ (SessionState = "Streaming" /\ mode = "photo") => photos' = photos + 1
       /\ (SessionState = "Streaming" /\ mode = "video") =>
            (isRecording' /\ Len(recorders') = Len(recorders) + 1 /\ ActiveRecording')
       /\ (SessionState = "Recording") =>
            (~isRecording' /\ ~ActiveRecording' /\ StopPending')
       /\ (mode = "video" /\ stream = 0) =>
            (recorders' = recorders /\ ~isRecording')]_vars

\* C17: a shutter press while a photo encode or a recorder stop event is
\* still pending starts no snapshot and constructs no recorder.
C17_ShutterIgnoredWhilePending ==
  [][(handleShutterClick /\ (encodes # <<>> \/ StopPending)) =>
       (photos' = photos /\ Len(recorders') = Len(recorders))]_vars

\* C18: when the preferred codec is rejected, handleStartRecording leaves the
\* same state as in the success case but for the recorder's codec: the
\* recorder is the current one, started, isRecording follows it, onClose is
\* not invoked and the view stays open.
C18_CodecFallbackSilent ==
  [][\A ok \in BOOLEAN :
       (handleStartRecording(FALSE, ok) /\ stream # 0) =>
         /\ recorders' = Append(recorders,
              [NewRecorder(TRUE, ok) EXCEPT !.mimeType = DefaultMime])
         /\ mediaRecorderRef' = Len(recorders')
         /\ isRecording' = (recorders'[mediaRecorderRef'].state = "recording")
         /\ (stream \in live) => isRecording'
         /\ recordedChunksRef' = <<>>
         /\ onCloseCount' = onCloseCount /\ mounted']_vars

\* C18 witness: a fallback recorder is the current recorder and is recording,
\* the view is open and onClose was never invoked.
C18_Witness ==
  /\ mounted /\ isRecording /\ onCloseCount = 0
  /\ mediaRecorderRef # 0
  /\ recorders[mediaRecorderRef].mimeType = DefaultMime
  /\ recorders[mediaRecorderRef].state = "recording"
  /\ recorders[mediaRecorderRef].stream \in live

\* the recorder that delivered a chunk byte
ByteOwner(b) == b \div 10

\* C19: the artifact of a recording contains only bytes delivered by that
\* recording's own recorder.
C19_ArtifactHasOnlyOwnChunks ==
  \A i \in DOMAIN produced :
    produced[i].kind = "video" =>
      \A k \in DOMAIN produced[i].blob.data :
        ByteOwner(produced[i].blob.data[k]) = produced[i].rec

\* C20: whenever the session is Streaming (no acquisition pending), the held
\* handle was requested with the current facing direction and with audio
\* exactly when the current mode is video.
C20_HeldStreamMatchesSettings ==
  SessionState = "Streaming" =>
    constraintsOf[stream] = Constraints(facingMode, mode)


====
